---- MODULE Spec2Model ----
(***************************************************************************)
(* Model of the command safety gate of ai-cli.py: CommandValidator         *)
(* (validate_command, sanitize_command), CommandExecutor.execute_command   *)
(* and the interactive loop AICLI.run.                                     *)
(*                                                                         *)
(* A Python str is a sequence of one-character strings, so that len,       *)
(* lower, strip, the in operator, re.search, re.sub and shlex.split are    *)
(* computed character by character as the interpreter computes them.       *)
(***************************************************************************)
EXTENDS Integers, Sequences, FiniteSets, TLC

VARIABLES
    validator,   \* fields of the CommandValidator the executor holds
    command,     \* the str handed to validate_command / execute_command
    outcome,     \* what validate_command returned (or raised) for command
    other,       \* a CommandValidator built from the same configuration in
                 \* another run of the program, and what its validate_command
                 \* returned for command
    sanitized,   \* results of applying sanitize_command once, twice, ...
    config,      \* cli.config: the configuration the application holds
    pc,          \* where AICLI.run is: at the "prompt", at the "confirm"
                 \* prompt, "done" after exit, "interrupted" after Ctrl-C
    user_input,  \* the line read at the prompt
    generated_command,  \* the command the AI generated for user_input
    confirm,     \* the answer last read at "Execute this command? (y/n): ",
                 \* stripped and lower-cased
    call,        \* the last call of execute_command and what it returned
    started,     \* the commands handed to subprocess.run so far
    history,     \* HistoryManager.history
    shell,       \* the process subprocess.run started with shell=True
    descendants, \* processes the shell spawned: how many are running and
                 \* how many have ended
    elapsed,     \* seconds since subprocess.run started waiting
    result       \* what the try block of execute_command returned

valVars == <<validator, command, outcome, other>>
sanVars == <<sanitized>>
cliVars ==
    <<config, pc, user_input, generated_command, confirm, call, started, history>>
runVars == <<shell, descendants, elapsed, result>>

----------------------------------------------------------------------------
(* str primitives *)

\* characters str.strip() and the regex class \s remove / match
Whitespace == {" ", "\t", "\n", "\r", "\f"}

UpperAlpha == <<"A","B","C","D","E","F","G","H","I","J","K","L","M","N","O","P","Q","R","S","T","U","V","W","X","Y","Z">>
LowerAlpha == <<"a","b","c","d","e","f","g","h","i","j","k","l","m","n","o","p","q","r","s","t","u","v","w","x","y","z">>
Letters == {UpperAlpha[i] : i \in 1..26} \cup {LowerAlpha[i] : i \in 1..26}

\* str.lower() on one character
LowerChar(c) ==
    IF \E i \in 1..26 : UpperAlpha[i] = c
    THEN LowerAlpha[CHOOSE i \in 1..26 : UpperAlpha[i] = c]
    ELSE c

\* str.lower()
lower(s) == [i \in 1..Len(s) |-> LowerChar(s[i])]

\* str.strip()
strip(s) ==
    LET keep == {i \in 1..Len(s) : s[i] \notin Whitespace}
    IN  IF keep = {} THEN <<>>
        ELSE LET a == CHOOSE i \in keep : \A j \in keep : i <= j
                 b == CHOOSE i \in keep : \A j \in keep : j <= i
             IN  SubSeq(s, a, b)

\* the str operator "sub in s"
Contains(sub, s) ==
    \E i \in 0..(Len(s) - Len(sub)) : SubSeq(s, i + 1, i + Len(sub)) = sub

\* str.startswith
startswith(s, prefix) ==
    Len(prefix) <= Len(s) /\ SubSeq(s, 1, Len(prefix)) = prefix

\* str.endswith
endswith(s, suffix) ==
    Len(suffix) <= Len(s) /\ SubSeq(s, Len(s) - Len(suffix) + 1, Len(s)) = suffix

----------------------------------------------------------------------------
(* the regular expressions of the re module, as far as the source uses     *)
(* them: a pattern is a sequence of alternatives (top-level |), an         *)
(* alternative a sequence of items, an item a character class with a       *)
(* quantifier ("1", "+" or "*").                                           *)

Lit(w) == [i \in 1..Len(w) |-> [t |-> "set", cs |-> {w[i]}, q |-> "1"]]
WS(q) == << [t |-> "set", cs |-> Whitespace, q |-> q] >>
Dot(q) == << [t |-> "dot", cs |-> {}, q |-> q] >>
Class(cs, q) == << [t |-> "set", cs |-> cs, q |-> q] >>

\* does character c belong to the item's class ('.' is anything but newline)
Matches(item, c) ==
    CASE item.t = "dot" -> c # "\n"
      [] item.t = "not" -> c \notin item.cs
      [] OTHER -> c \in item.cs

\* lengths k such that the k characters after position p all match item
Run(item, s, p) ==
    {k \in 0..(Len(s) - p) : \A j \in 1..k : Matches(item, s[p + j])}

\* positions reachable from the positions P by matching one quantified item
Step(item, s, P) ==
    UNION { { p + k : k \in { n \in Run(item, s, p) :
                                CASE item.q = "1" -> n = 1
                                  [] item.q = "+" -> n >= 1
                                  [] OTHER -> TRUE } } : p \in P }

\* end positions of the matches of items k.. of alt that start in P
RECURSIVE Ends(_, _, _, _)
Ends(alt, k, s, P) ==
    IF k > Len(alt) THEN P ELSE Ends(alt, k + 1, s, Step(alt[k], s, P))

\* end positions of the matches of the pattern that start at offset i
MatchEnds(alts, s, i) ==
    UNION { Ends(alts[a], 1, s, {i}) : a \in 1..Len(alts) }

\* re.search(pattern, s) is not None
search(alts, s) == \E i \in 0..Len(s) : MatchEnds(alts, s, i) # {}

Max(S) == CHOOSE x \in S : \A y \in S : y <= x

\* re.sub(pattern, '', s) for a pattern without alternation that cannot
\* match the empty string: the leftmost match is removed, the scan resumes
\* after it; the greedy quantifiers take the longest run
RECURSIVE SubFrom(_, _, _)
SubFrom(alts, s, i) ==
    IF i >= Len(s) THEN <<>>
    ELSE LET e == MatchEnds(alts, s, i)
         IN  IF e # {} THEN SubFrom(alts, s, Max(e))
             ELSE <<s[i + 1]>> \o SubFrom(alts, s, i + 1)

sub(alts, s) == SubFrom(alts, s, 0)

----------------------------------------------------------------------------
(* shlex.split(command): POSIX rules, whitespace_split, no comments *)

ShlexWhitespace == {" ", "\t", "\r", "\n"}

\* st: "none" between tokens, "word" inside a token, "sq"/"dq" inside
\* quotes, "esc"/"escdq" right after a backslash (outside / inside "...")
RECURSIVE ShlexFrom(_, _, _, _, _)
ShlexFrom(s, i, st, tok, parts) ==
    IF i > Len(s) THEN
        CASE st \in {"sq", "dq"} ->
                 [ok |-> FALSE, parts |-> <<>>, err |-> <<"N","o"," ","c","l","o","s","i","n","g"," ","q","u","o","t","a","t","i","o","n">>]
          [] st \in {"esc", "escdq"} ->
                 [ok |-> FALSE, parts |-> <<>>, err |-> <<"N","o"," ","e","s","c","a","p","e","d"," ","c","h","a","r","a","c","t","e","r">>]
          [] st = "word" -> [ok |-> TRUE, parts |-> Append(parts, tok), err |-> <<>>]
          [] OTHER -> [ok |-> TRUE, parts |-> parts, err |-> <<>>]
    ELSE LET c == s[i] IN
        CASE st \in {"none", "word"} /\ c \in ShlexWhitespace ->
                 ShlexFrom(s, i + 1, "none",  <<>>,
                           IF st = "word" THEN Append(parts, tok) ELSE parts)
          [] st \in {"none", "word"} /\ c = "\\" ->
                 ShlexFrom(s, i + 1, "esc", tok, parts)
          [] st \in {"none", "word"} /\ c = "'" ->
                 ShlexFrom(s, i + 1, "sq", tok, parts)
          [] st \in {"none", "word"} /\ c = "\"" ->
                 ShlexFrom(s, i + 1, "dq", tok, parts)
          [] st \in {"none", "word"} ->
                 ShlexFrom(s, i + 1, "word", Append(tok, c), parts)
          [] st = "esc" ->
                 ShlexFrom(s, i + 1, "word", Append(tok, c), parts)
          [] st = "sq" /\ c = "'" -> ShlexFrom(s, i + 1, "word", tok, parts)
          [] st = "sq" -> ShlexFrom(s, i + 1, "sq", Append(tok, c), parts)
          [] st = "dq" /\ c = "\"" -> ShlexFrom(s, i + 1, "word", tok, parts)
          [] st = "dq" /\ c = "\\" -> ShlexFrom(s, i + 1, "escdq", tok, parts)
          [] st = "dq" -> ShlexFrom(s, i + 1, "dq", Append(tok, c), parts)
          [] OTHER -> \* "escdq": the backslash stays unless it escapes " or \
                 ShlexFrom(s, i + 1, "dq",
                           IF c \in {"\"", "\\"} THEN Append(tok, c)
                           ELSE tok \o <<"\\", c>>, parts)

\* [ok |-> TRUE, parts |-> tokens] or, when shlex raises ValueError, ok = FALSE
shlex_split(s) == ShlexFrom(s, 1, "none", <<>>, <<>>)

----------------------------------------------------------------------------
(* ConfigManager._load_config: the default configuration and the policies  *)
(* a configuration file can put in its place (loaded keys override the     *)
(* defaults).                                                              *)

default_allowed_commands ==
    { <<"l","s">>, <<"p","w","d">>, <<"c","d">>, <<"c","a","t">>, <<"h","e","a","d">>, <<"t","a","i","l">>, <<"g","r","e","p">>, <<"f","i","n","d">>,
      <<"m","k","d","i","r">>, <<"r","m","d","i","r">>, <<"c","p">>, <<"m","v">>, <<"r","m">>, <<"c","h","m","o","d">>, <<"c","h","o","w","n">>,
      <<"p","s">>, <<"t","o","p">>, <<"d","f">>, <<"d","u">>, <<"t","a","r">>, <<"z","i","p">>, <<"u","n","z","i","p">>,
      <<"g","i","t">>, <<"d","o","c","k","e","r">>, <<"k","u","b","e","c","t","l">>, <<"a","w","s">>, <<"t","e","r","r","a","f","o","r","m">> }

default_forbidden_commands ==
    << <<"r","m"," ","-","r","f"," ","/">>, <<"d","d">>, <<"m","k","f","s">>, <<"f","d","i","s","k">>, <<"f","o","r","m","a","t">>,
       <<"s","h","u","t","d","o","w","n">>, <<"r","e","b","o","o","t">>, <<"i","n","i","t">>, <<"k","i","l","l","a","l","l">>, <<"p","k","i","l","l">> >>

default_max_command_length == 500

\* length limit of the configuration file that tightens the limit
ShortMaxLen == 10

default_config ==
    [ allowed_commands   |-> default_allowed_commands,
      forbidden_commands |-> default_forbidden_commands,
      max_command_length |-> default_max_command_length,
        safe_mode          |-> TRUE ]

\* configuration files: ls and cat allowed and nothing forbidden; nothing
\* allowed; a forbidden substring written with capitals; a short limit
loaded_configs ==
    { [ allowed_commands   |-> {<<"l","s">>, <<"c","a","t">>},
        forbidden_commands |-> <<>>,
        max_command_length |-> default_max_command_length,
        safe_mode          |-> TRUE ],
      [ allowed_commands   |-> {},
        forbidden_commands |-> << <<"s","h","u","t","d","o","w","n">> >>,
        max_command_length |-> default_max_command_length,
        safe_mode          |-> TRUE ],
      [ allowed_commands   |-> {<<"l","s">>, <<"r","m">>},
        forbidden_commands |-> << <<"S","h","u","t","d","o","w","n">>, <<"m","k","f","s">> >>,
        max_command_length |-> default_max_command_length,
        safe_mode          |-> TRUE ],
      [ allowed_commands   |-> {<<"l","s">>},
        forbidden_commands |-> << <<"r","m"," ","-","r","f"," ","/">>, <<"r","m">> >>,
        max_command_length |-> ShortMaxLen,
        safe_mode          |-> TRUE ] }

Configs == {default_config} \cup loaded_configs

\* set(config.get("forbidden_commands")): the order in which a set of str
\* is iterated is fixed for one set object and differs from process to
\* process (hash randomisation); the orders are the rotations of the
\* configured list and of its reverse
Reverse(l) == [i \in 1..Len(l) |-> l[Len(l) + 1 - i]]
Rotate(l, k) == [i \in 1..Len(l) |-> l[((i + k - 1) % Len(l)) + 1]]
IterationOrders(l) ==
    IF l = <<>> THEN {<<>>}
    ELSE {Rotate(l, k) : k \in 0..(Len(l) - 1)}
         \cup {Rotate(Reverse(l), k) : k \in 0..(Len(l) - 1)}

\* CommandValidator.__init__
CommandValidator(cfg) ==
    { [ allowed_commands   |-> cfg.allowed_commands,
        forbidden_commands |-> order,
        max_length         |-> cfg.max_command_length ]
      : order \in IterationOrders(cfg.forbidden_commands) }

----------------------------------------------------------------------------
(* CommandValidator.validate_command *)

dangerous_patterns ==
    << [ src  |-> <<"r","m","\\","s","+","-","r","f","\\","s","+","/">>,
         alts |-> << Lit(<<"r","m">>) \o WS("+") \o Lit(<<"-","r","f">>) \o WS("+") \o Lit(<<"/">>) >> ],
       [ src  |-> <<"d","d","\\","s","+","i","f","=",".","*","\\","s","+","o","f","=","/","d","e","v","/">>,
         alts |-> << Lit(<<"d","d">>) \o WS("+") \o Lit(<<"i","f","=">>) \o Dot("*") \o WS("+")
                     \o Lit(<<"o","f","=","/","d","e","v","/">>) >> ],
       [ src  |-> <<"m","k","f","s","\\","s","+",".","*">>,
         alts |-> << Lit(<<"m","k","f","s">>) \o WS("+") \o Dot("*") >> ],
       [ src  |-> <<"f","d","i","s","k","\\","s","+",".","*">>,
         alts |-> << Lit(<<"f","d","i","s","k">>) \o WS("+") \o Dot("*") >> ],
       [ src  |-> <<"s","h","u","t","d","o","w","n","\\","s","+",".","*">>,
         alts |-> << Lit(<<"s","h","u","t","d","o","w","n">>) \o WS("+") \o Dot("*") >> ],
       [ src  |-> <<"r","e","b","o","o","t","\\","s","+",".","*">>,
         alts |-> << Lit(<<"r","e","b","o","o","t">>) \o WS("+") \o Dot("*") >> ],
       [ src  |-> <<"k","i","l","l","a","l","l","\\","s","+",".","*">>,
         alts |-> << Lit(<<"k","i","l","l","a","l","l">>) \o WS("+") \o Dot("*") >> ],
       [ src  |-> <<"p","k","i","l","l","\\","s","+",".","*">>,
         alts |-> << Lit(<<"p","k","i","l","l">>) \o WS("+") \o Dot("*") >> ],
       [ src  |-> <<">","\\","s","*","/","d","e","v","/">>,
         alts |-> << Lit(<<">">>) \o WS("*") \o Lit(<<"/","d","e","v","/">>) >> ],
       [ src  |-> <<">",">","\\","s","*","/","d","e","v","/">>,
         alts |-> << Lit(<<">",">">>) \o WS("*") \o Lit(<<"/","d","e","v","/">>) >> ],
       \* the | is not escaped: the pattern is the alternation of the empty
       \* pattern and \s*tee\s+/dev/
       [ src  |-> <<"|","\\","s","*","t","e","e","\\","s","+","/","d","e","v","/">>,
         alts |-> << <<>>,
                     WS("*") \o Lit(<<"t","e","e">>) \o WS("+") \o Lit(<<"/","d","e","v","/">>) >> ] >>

\* str(n) of a natural number, as an f-string formats it
RECURSIVE str(_)
str(n) ==
    IF n < 10 THEN <<<<"0","1","2","3","4","5","6","7","8","9">>[n + 1]>>
    ELSE str(n \div 10) \o <<<<"0","1","2","3","4","5","6","7","8","9">>[(n % 10) + 1]>>

\* return is_safe, error_msg
Return(is_safe, error_msg) ==
    [called |-> TRUE, raised |-> FALSE, is_safe |-> is_safe, error_msg |-> error_msg]

\* an exception leaves validate_command
Raise(message) ==
    [called |-> TRUE, raised |-> TRUE, is_safe |-> FALSE, error_msg |-> message]

NoOutcome ==
    [called |-> FALSE, raised |-> FALSE, is_safe |-> FALSE, error_msg |-> <<>>]

Min(S) == CHOOSE x \in S : \A y \in S : x <= y

\* validate_command with the length check after the two scans
validate_command_length_last(self, cmd) ==
    LET command_lower == lower(cmd)
        forbidden == { i \in 1..Len(self.forbidden_commands) :
                         Contains(self.forbidden_commands[i], command_lower) }
        dangerous == { i \in 1..Len(dangerous_patterns) :
                         search(dangerous_patterns[i].alts, command_lower) }
    IN  IF strip(cmd) = <<>> THEN
            Return(FALSE, <<"E","m","p","t","y"," ","c","o","m","m","a","n","d">>)
        ELSE IF forbidden # {} THEN
            Return(FALSE, <<"F","o","r","b","i","d","d","e","n"," ","c","o","m","m","a","n","d"," ","p","a","t","t","e","r","n"," ","d","e","t","e","c","t","e","d",":"," ">>
                          \o self.forbidden_commands[Min(forbidden)])
        ELSE IF Len(cmd) <= self.max_length /\ dangerous # {} THEN
            Return(FALSE, <<"D","a","n","g","e","r","o","u","s"," ","c","o","m","m","a","n","d"," ","p","a","t","t","e","r","n"," ","d","e","t","e","c","t","e","d",":"," ">>
                          \o dangerous_patterns[Min(dangerous)].src)
        ELSE
            Return(FALSE, <<"C","o","m","m","a","n","d"," ","t","o","o"," ","l","o","n","g"," ","(","m","a","x"," ">> \o str(self.max_length)
                          \o <<" ","c","h","a","r","a","c","t","e","r","s",")">>)

\* validate_command with the pattern scan before the forbidden-substring scan
validate_command_patterns_first(self, cmd) ==
    LET command_lower == lower(cmd)
        forbidden == { i \in 1..Len(self.forbidden_commands) :
                         Contains(self.forbidden_commands[i], command_lower) }
        dangerous == { i \in 1..Len(dangerous_patterns) :
                         search(dangerous_patterns[i].alts, command_lower) }
    IN  IF strip(cmd) = <<>> THEN
            Return(FALSE, <<"E","m","p","t","y"," ","c","o","m","m","a","n","d">>)
        ELSE IF Len(cmd) > self.max_length THEN
            Return(FALSE, <<"C","o","m","m","a","n","d"," ","t","o","o"," ","l","o","n","g"," ","(","m","a","x"," ">> \o str(self.max_length)
                          \o <<" ","c","h","a","r","a","c","t","e","r","s",")">>)
        ELSE IF dangerous # {} THEN
            Return(FALSE, <<"D","a","n","g","e","r","o","u","s"," ","c","o","m","m","a","n","d"," ","p","a","t","t","e","r","n"," ","d","e","t","e","c","t","e","d",":"," ">>
                          \o dangerous_patterns[Min(dangerous)].src)
        ELSE
            Return(FALSE, <<"F","o","r","b","i","d","d","e","n"," ","c","o","m","m","a","n","d"," ","p","a","t","t","e","r","n"," ","d","e","t","e","c","t","e","d",":"," ">>
                          \o self.forbidden_commands[Min(forbidden)])

validate_command(self, cmd) ==
    LET command_lower == lower(cmd)
        forbidden == { i \in 1..Len(self.forbidden_commands) :
                         Contains(self.forbidden_commands[i], command_lower) }
        dangerous == { i \in 1..Len(dangerous_patterns) :
                         search(dangerous_patterns[i].alts, command_lower) }
        split == shlex_split(cmd)
    IN  IF strip(cmd) = <<>> THEN
            Return(FALSE, <<"E","m","p","t","y"," ","c","o","m","m","a","n","d">>)
        ELSE IF Len(cmd) > self.max_length THEN
            Return(FALSE, <<"C","o","m","m","a","n","d"," ","t","o","o"," ","l","o","n","g"," ","(","m","a","x"," ">> \o str(self.max_length)
                          \o <<" ","c","h","a","r","a","c","t","e","r","s",")">>)
        ELSE IF forbidden # {} THEN
            Return(FALSE, <<"F","o","r","b","i","d","d","e","n"," ","c","o","m","m","a","n","d"," ","p","a","t","t","e","r","n"," ","d","e","t","e","c","t","e","d",":"," ">>
                          \o self.forbidden_commands[Min(forbidden)])
        ELSE IF dangerous # {} THEN
            Return(FALSE, <<"D","a","n","g","e","r","o","u","s"," ","c","o","m","m","a","n","d"," ","p","a","t","t","e","r","n"," ","d","e","t","e","c","t","e","d",":"," ">>
                          \o dangerous_patterns[Min(dangerous)].src)
        ELSE IF ~split.ok THEN
            Raise(<<"V","a","l","u","e","E","r","r","o","r",":"," ">> \o split.err)
        ELSE IF split.parts # <<>> /\ split.parts[1] \notin self.allowed_commands THEN
            Return(FALSE, <<"C","o","m","m","a","n","d"," ","'">> \o split.parts[1] \o <<"'"," ","n","o","t"," ","i","n"," ","a","l","l","o","w","e","d"," ","l","i","s","t">>)
        ELSE
            Return(TRUE, <<>>)

\* the four patterns sanitize_command erases, in the order it erases them
dev_redirect ==
    << Class({">", "|"}, "1") \o WS("*") \o Lit(<<"/","d","e","v","/">>) \o Class(Letters, "+") >>
etc_redirect == << Class({">", "|"}, "1") \o WS("*") \o Lit(<<"/","e","t","c","/">>) >>
var_redirect == << Class({">", "|"}, "1") \o WS("*") \o Lit(<<"/","v","a","r","/">>) >>
usr_redirect == << Class({">", "|"}, "1") \o WS("*") \o Lit(<<"/","u","s","r","/">>) >>

\* CommandValidator.sanitize_command
sanitize_command(cmd) ==
    strip(sub(usr_redirect, sub(var_redirect, sub(etc_redirect,
          sub(dev_redirect, cmd)))))

----------------------------------------------------------------------------
(* CommandExecutor.execute_command *)

\* what subprocess.run can do with a command: complete with the captured
\* streams and the exit status, run into the timeout, or fail to start
RunOutcomes ==
    { [kind |-> "completed", stdout |-> <<"n","o","t","e","s",".","t","x","t","\n">>, stderr |-> <<>>,
       returncode |-> 0],
      [kind |-> "completed", stdout |-> <<>>,
       stderr |-> <<"N","o"," ","s","u","c","h"," ","f","i","l","e"," ","o","r"," ","d","i","r","e","c","t","o","r","y","\n">>, returncode |-> 2],
      [kind |-> "completed",
       stdout |-> <<"E","R","R","O","R",":"," ","C","o","m","m","a","n","d"," ","t","i","m","e","d"," ","o","u","t"," ","a","f","t","e","r"," ","3","0"," ","s","e","c","o","n","d","s">>,
       stderr |-> <<>>, returncode |-> 1],
      [kind |-> "timeout", stdout |-> <<>>, stderr |-> <<>>, returncode |-> 0],
      [kind |-> "error", stdout |-> <<>>,
       stderr |-> <<"[","E","r","r","n","o"," ","1","3","]"," ","P","e","r","m","i","s","s","i","o","n"," ","d","e","n","i","e","d">>, returncode |-> 0] }

NoCall ==
    [ origin |-> "none", command |-> <<>>, validation |-> NoOutcome,
      raised |-> FALSE, spawned |-> FALSE, ran |-> <<>>,
      output |-> <<>>, exit_code |-> 0 ]

\* the output, exit_code that lines 236-254 return when subprocess.run does
\* proc
RunResult(proc) ==
    CASE proc.kind = "completed" ->
           [ output |-> proc.stdout \o
                 (IF proc.stderr # <<>> THEN <<"\n","S","T","D","E","R","R",":"," ">> \o proc.stderr
                  ELSE <<>>),
             exit_code |-> proc.returncode ]
      [] proc.kind = "timeout" ->
           [ output |-> <<"E","R","R","O","R",":"," ","C","o","m","m","a","n","d"," ","t","i","m","e","d"," ","o","u","t"," ","a","f","t","e","r"," ","3","0"," ","s","e","c","o","n","d","s">>,
             exit_code |-> 1 ]
      [] OTHER ->
           [ output |-> <<"E","R","R","O","R",":"," ","F","a","i","l","e","d"," ","t","o"," ","e","x","e","c","u","t","e"," ","c","o","m","m","a","n","d"," ","-"," ">> \o proc.stderr,
             exit_code |-> 1 ]

\* execute_command without the early return of line 229
execute_command_ungated(self, cmd, origin) ==
    LET v == validate_command(self, cmd)
        sanitized_command == sanitize_command(cmd)
        base == [ origin |-> origin, command |-> cmd, validation |-> v,
                  raised |-> FALSE, spawned |-> FALSE, ran |-> <<>>,
                  output |-> <<>>, exit_code |-> 0 ]
    IN  IF v.raised THEN
            { [base EXCEPT !.raised = TRUE] }
        ELSE
            { [base EXCEPT !.spawned = TRUE, !.ran = sanitized_command,
                           !.output = RunResult(proc).output,
                           !.exit_code = RunResult(proc).exit_code]
              : proc \in RunOutcomes }

\* execute_command(command): the results it can return, one for each thing
\* subprocess.run can do when it is reached; origin tells a direct command
\* from a generated one
execute_command(self, cmd, origin) ==
    LET v == validate_command(self, cmd)
        sanitized_command == sanitize_command(cmd)
        base == [ origin |-> origin, command |-> cmd, validation |-> v,
                  raised |-> FALSE, spawned |-> FALSE, ran |-> <<>>,
                  output |-> <<>>, exit_code |-> 0 ]
    IN  IF v.raised THEN
            { [base EXCEPT !.raised = TRUE] }
        ELSE IF ~v.is_safe THEN
            { [base EXCEPT !.output = <<"E","R","R","O","R",":"," ">> \o v.error_msg,
                           !.exit_code = 1] }
        ELSE
            { [base EXCEPT !.spawned = TRUE, !.ran = sanitized_command,
                           !.output = RunResult(proc).output,
                           !.exit_code = RunResult(proc).exit_code]
              : proc \in RunOutcomes }

\* no answer was read at the confirmation prompt yet
NoConfirm == [asked |-> FALSE, answer |-> <<>>]

NoShell == [state |-> "none", returncode |-> 0]
NoResult == [kind |-> "none", output |-> <<>>, exit_code |-> 0]

\* no subprocess: the state of a specification that does not follow one
IdleRun ==
    /\ shell = NoShell
    /\ descendants = [running |-> 0, ended |-> 0]
    /\ elapsed = 0
    /\ result = NoResult

\* the state of the interactive loop in a specification that does not run it
IdleCli ==
    /\ config = default_config
    /\ pc = "idle"
    /\ user_input = <<>>
    /\ generated_command = <<>>
    /\ confirm = NoConfirm
    /\ call = NoCall
    /\ started = {}
    /\ history = <<>>

----------------------------------------------------------------------------
(* validate_command as a function of the command and the policy *)

\* a run of n filler characters
Filler(n) == [i \in 1..n |-> "a"]

\* the commands validate_command is applied to
Commands ==
    { <<>>, <<" "," ">>, <<" ","\t">>,
      <<"l","s">>, <<"l","s"," ","-","l","a">>, <<" ","l","s"," ","-","l","a"," ">>, <<"L","S">>, <<"'","l","s","'"," ","-","l","a">>, <<"c","a","t"," ","n","o","t","e","s">>,
      <<"f","o","o">>, <<"f","o","o"," ","b","a","r">>, <<".","/","l","s">>,
      <<"r","m"," ","-","r","f"," ","/">>, <<"r","m"," "," ","-","r","f"," "," ","/">>, <<"R","M"," ","-","R","F"," ","/">>, <<"r","m"," ","-","r"," ","x">>,
      <<"s","h","u","t","d","o","w","n"," ","n","o","w">>, <<"S","H","U","T","D","O","W","N"," ","n","o","w">>, <<"S","h","u","t","d","o","w","n">>, <<"l","s",";"," ","s","h","u","t","d","o","w","n"," ","n","o","w">>,
      <<"s","h","u","t","d","o","w","n"," ","n","o","w",";"," ","r","e","b","o","o","t">>,
      <<"e","c","h","o"," ","r","e","b","o","o","t">>, <<"m","k","f","s"," ","x">>, <<"d","d"," ","i","f","=","a"," ","o","f","=","/","d","e","v","/","s","d","a">>,
      <<"l","s"," ",">"," ","/","d","e","v","/","n","u","l","l">>, <<"l","s"," ",">",">"," ","/","d","e","v","/","n","u","l","l">>, <<"l","s"," ","|"," ","t","e","e"," ","/","d","e","v","/","x">>,
      <<"c","a","t"," ","s","e","c","r","e","t"," ",">"," ","/","e","t","c","/","p","a","s","s","w","d">>,
      <<"l","s"," ","\"","a","b","c">>, <<"f","o","o"," ","'","x">>, <<"l","s"," ","\\">>,
      <<"l","s"," ">> \o Filler(ShortMaxLen),
      <<"f","o","o"," ">> \o Filler(ShortMaxLen),
      <<"r","m"," ","-","r","f"," ","/"," ">> \o Filler(ShortMaxLen),
      <<"l","s"," ">> \o Filler(default_max_command_length),
      <<"s","h","u","t","d","o","w","n"," ">> \o Filler(default_max_command_length) }

\* the validator of a specification that validates nothing
IdleValidator ==
    [ allowed_commands   |-> default_allowed_commands,
      forbidden_commands |-> default_forbidden_commands,
      max_length         |-> default_max_command_length ]

Validators == UNION { CommandValidator(cfg) : cfg \in Configs }

\* no other run of the program
NoOther == [ validator |-> IdleValidator, outcome |-> NoOutcome ]

vars == <<valVars, sanVars, cliVars, runVars>>

InitVal ==
    /\ validator \in Validators
    /\ command \in Commands
    /\ outcome = NoOutcome
    /\ other = NoOther
    /\ sanitized = <<>>
    /\ IdleCli
    /\ IdleRun

\* one call of validate_command
Validate ==
    /\ ~outcome.called
    /\ outcome' = validate_command(validator, command)
    /\ UNCHANGED <<validator, command, other, sanVars, cliVars, runVars>>

\* the validators another run of the program builds from the configuration
\* self was built from: set(...) of line 99 holds the same strings and is
\* iterated in the same or in another order
SamePolicy(self) ==
    { [self EXCEPT !.forbidden_commands = order] :
        order \in { self.forbidden_commands,
                    Reverse(self.forbidden_commands) } }

\* validate_command of the same command in another run of the program
ValidateElsewhere ==
    /\ outcome.called
    /\ ~other.outcome.called
    /\ \E self \in SamePolicy(validator) :
          other' = [ validator |-> self,
                     outcome   |-> validate_command(self, command) ]
    /\ UNCHANGED <<validator, command, outcome, sanVars, cliVars, runVars>>

NextVal == Validate \/ ValidateElsewhere

SpecVal == InitVal /\ [][NextVal]_vars

----------------------------------------------------------------------------
(* the five checks, each stated on its own *)

Blank(cmd) == \A i \in 1..Len(cmd) : cmd[i] \in Whitespace

TooLong(self, cmd) == Len(cmd) > self.max_length

\* the lower-cased command contains a configured substring as configured
HasForbidden(self, cmd) ==
    \E i \in 1..Len(self.forbidden_commands) :
        Contains(self.forbidden_commands[i], lower(cmd))

\* the command contains a configured substring, letter case ignored
HasForbiddenAnyCase(self, cmd) ==
    \E i \in 1..Len(self.forbidden_commands) :
        Contains(lower(self.forbidden_commands[i]), lower(cmd))

\* some pattern of the list as the interpreter reads it matches
MatchesDangerous(cmd) ==
    \E i \in 1..Len(dangerous_patterns) :
        search(dangerous_patterns[i].alts, lower(cmd))

\* a dangerous invocation: one of the invocations the list is written for,
\* the last of them a pipe into tee that targets /dev/
DangerousInvocation(cmd) ==
    \/ \E i \in 1..(Len(dangerous_patterns) - 1) :
           search(dangerous_patterns[i].alts, lower(cmd))
    \/ search(<< Lit(<<"|">>) \o WS("*") \o Lit(<<"t","e","e">>) \o WS("+") \o Lit(<<"/","d","e","v","/">>) >>,
              lower(cmd))

Tokenizes(cmd) == shlex_split(cmd).ok

HasLeadingToken(cmd) == Tokenizes(cmd) /\ shlex_split(cmd).parts # <<>>

LeadingToken(cmd) == shlex_split(cmd).parts[1]

\* the command passes the five checks as the design states them
PassesFiveChecks(self, cmd) ==
    /\ ~Blank(cmd)
    /\ ~TooLong(self, cmd)
    /\ ~HasForbiddenAnyCase(self, cmd)
    /\ ~DangerousInvocation(cmd)
    /\ HasLeadingToken(cmd)
    /\ LeadingToken(cmd) \in self.allowed_commands

\* the kind of outcome, read off what validate_command returned
Reason(o) ==
    CASE o.raised -> "Exception"
      [] o.is_safe -> "Accepted"
      [] o.error_msg = <<"E","m","p","t","y"," ","c","o","m","m","a","n","d">> -> "Empty"
      [] startswith(o.error_msg, <<"C","o","m","m","a","n","d"," ","t","o","o"," ","l","o","n","g"," ","(","m","a","x"," ">>) -> "TooLong"
      [] startswith(o.error_msg, <<"F","o","r","b","i","d","d","e","n"," ","c","o","m","m","a","n","d"," ","p","a","t","t","e","r","n"," ","d","e","t","e","c","t","e","d",":"," ">>) ->
             "ForbiddenSubstring"
      [] startswith(o.error_msg, <<"D","a","n","g","e","r","o","u","s"," ","c","o","m","m","a","n","d"," ","p","a","t","t","e","r","n"," ","d","e","t","e","c","t","e","d",":"," ">>) ->
             "DangerousPattern"
      [] startswith(o.error_msg, <<"C","o","m","m","a","n","d"," ","'">>) -> "CommandNotAllowlisted"
      [] OTHER -> "Unparseable"

----------------------------------------------------------------------------
(* properties of validate_command, checked under SpecVal *)

\* C2: every command that passes the five checks (not blank, no longer than
\* max_command_length, no forbidden substring, not a dangerous invocation,
\* leading token allowed) is accepted, "ls -la" among them.
C2_PassingCommandAccepted ==
    (outcome.called /\ PassesFiveChecks(validator, command))
    => outcome.is_safe /\ ~outcome.raised

\* C3: a command whose leading token is not in allowed_commands is rejected
\* with "Command '<token>' not in allowed list".
C3_NotAllowlistedReported ==
    ( /\ outcome.called
      /\ HasLeadingToken(command)
      /\ LeadingToken(command) \notin validator.allowed_commands )
    => /\ ~outcome.is_safe
       /\ outcome.error_msg =
              <<"C","o","m","m","a","n","d"," ","'">> \o LeadingToken(command) \o <<"'"," ","n","o","t"," ","i","n"," ","a","l","l","o","w","e","d"," ","l","i","s","t">>

\* C4: a command that reaches the forbidden-substring scan and contains a
\* configured forbidden substring, letter case of both ignored, is rejected
\* as ForbiddenSubstring, whether or not its leading token is allowed.
C4_ForbiddenAnyCaseRejected ==
    ( /\ outcome.called
      /\ ~Blank(command)
      /\ ~TooLong(validator, command)
      /\ HasForbiddenAnyCase(validator, command) )
    => Reason(outcome) = "ForbiddenSubstring"

\* the reason of the first check that fails, in the order Empty, TooLong,
\* ForbiddenSubstring, DangerousPattern, allowlist
FirstFailing(self, cmd) ==
    CASE Blank(cmd) -> "Empty"
      [] TooLong(self, cmd) -> "TooLong"
      [] HasForbidden(self, cmd) -> "ForbiddenSubstring"
      [] MatchesDangerous(cmd) -> "DangerousPattern"
      [] ~Tokenizes(cmd) -> "Exception"
      [] HasLeadingToken(cmd) /\ LeadingToken(cmd) \notin self.allowed_commands ->
             "CommandNotAllowlisted"
      [] OTHER -> "Accepted"

\* C5: the reported reason is that of the first failing check in the order
\* Empty, TooLong, ForbiddenSubstring, DangerousPattern, allowlist; a command
\* that is not blank and longer than max_command_length is always TooLong.
C5_FirstFailingCheckWins ==
    outcome.called =>
        /\ Reason(outcome) = FirstFailing(validator, command)
        /\ (~Blank(command) /\ TooLong(validator, command)) =>
               outcome.error_msg = <<"C","o","m","m","a","n","d"," ","t","o","o"," ","l","o","n","g"," ","(","m","a","x"," ">>
                   \o str(validator.max_length) \o <<" ","c","h","a","r","a","c","t","e","r","s",")">>

\* a too long command that would also fail the forbidden-substring scan
C5_Witness ==
    /\ outcome.called
    /\ TooLong(validator, command)
    /\ HasForbidden(validator, command)
    /\ Reason(outcome) = "TooLong"

\* C6 as stated: "rm -rf /" is rejected as DangerousPattern and as nothing
\* else.
C6_RmRfIsDangerousPattern ==
    (outcome.called /\ command = <<"r","m"," ","-","r","f"," ","/">>)
    => Reason(outcome) = "DangerousPattern"

\* C6 amended: "rm -rf /" is rejected as ForbiddenSubstring under every
\* policy one of whose forbidden substrings occurs in it (the default policy
\* lists "rm -rf /" itself), and as DangerousPattern rm\s+-rf\s+/ under the
\* policies none of whose forbidden substrings occurs in it.
C6_RmRfForbiddenFirst ==
    (outcome.called /\ command = <<"r","m"," ","-","r","f"," ","/">> /\ ~TooLong(validator, command))
    => /\ ~outcome.is_safe /\ ~outcome.raised
       /\ IF HasForbidden(validator, command)
          THEN \E i \in 1..Len(validator.forbidden_commands) :
                   /\ Contains(validator.forbidden_commands[i], command)
                   /\ outcome.error_msg = <<"F","o","r","b","i","d","d","e","n"," ","c","o","m","m","a","n","d"," ","p","a","t","t","e","r","n"," ","d","e","t","e","c","t","e","d",":"," ">>
                          \o validator.forbidden_commands[i]
          ELSE outcome.error_msg =
                   <<"D","a","n","g","e","r","o","u","s"," ","c","o","m","m","a","n","d"," ","p","a","t","t","e","r","n"," ","d","e","t","e","c","t","e","d",":"," ","r","m","\\","s","+","-","r","f","\\","s","+","/">>

\* "rm -rf /" validated under the default policy
C6_Witness ==
    /\ outcome.called
    /\ command = <<"r","m"," ","-","r","f"," ","/">>
    /\ validator.allowed_commands = default_allowed_commands
    /\ validator.max_length = default_max_command_length
    /\ outcome.error_msg = <<"F","o","r","b","i","d","d","e","n"," ","c","o","m","m","a","n","d"," ","p","a","t","t","e","r","n"," ","d","e","t","e","c","t","e","d",":"," ","r","m"," ","-","r","f"," ","/">>

\* C7: a command that reaches tokenization and cannot be tokenized (its
\* quotes do not balance) is rejected as Unparseable, and validate_command
\* raises nothing.
C7_UnparseableRejected ==
    ( /\ outcome.called
      /\ ~Blank(command)
      /\ ~TooLong(validator, command)
      /\ ~HasForbiddenAnyCase(validator, command)
      /\ ~DangerousInvocation(command)
      /\ ~Tokenizes(command) )
    => ~outcome.raised /\ Reason(outcome) = "Unparseable"

----------------------------------------------------------------------------
(* sanitize_command as a function of the command, checked under SpecSan *)

\* longest tail, in fragments, of a generated command
MaxFragments == 3

Fragments ==
    { <<" ">>, <<">">>, <<">",">">>, <<"|">>, <<"/","d","e","v","/">>, <<"/","e","t","c","/">>, <<"/","v","a","r","/">>, <<"/","u","s","r","/">>, <<"n","u","l","l">>, <<"p","a","s","s","w","d">> }

RECURSIVE Tails(_)
Tails(n) ==
    IF n = 0 THEN {<<>>}
    ELSE LET shorter == Tails(n - 1)
         IN  shorter \cup {t \o f : t \in shorter, f \in Fragments}

\* the commands sanitize_command is applied to: an allowed program followed
\* by redirects, pipes and paths, and the commands of the examples
SanitizeInputs ==
    {<<"l","s"," ">> \o t : t \in Tails(MaxFragments)}
    \cup { <<"c","a","t"," ","s","e","c","r","e","t"," ",">"," ","/","e","t","c","/","p","a","s","s","w","d">>, <<"c","a","t"," ","f","o","o"," ",">"," ","/","e","t","c","/","p","a","s","s","w","d">>,
           <<"l","s"," ",">"," ","/","d","e","v","/","s","d","a","1">>, <<"l","s"," ","-","l","a">>, <<"c","a","t"," ","a"," ",">",">"," ","/","v","a","r","/","l","o","g","/","x">>,
           <<"l","s"," ","|"," ","/","u","s","r","/","b","i","n","/","w","c">>, <<" ","l","s"," ","-","l","a"," ">> }

InitSan ==
    /\ validator = IdleValidator
    /\ command \in SanitizeInputs
    /\ outcome = NoOutcome
    /\ other = NoOther
    /\ sanitized = <<>>
    /\ IdleCli
    /\ IdleRun

\* sanitize_command applied to the command
Sanitize ==
    /\ sanitized = <<>>
    /\ sanitized' = <<sanitize_command(command)>>
    /\ UNCHANGED <<valVars, cliVars, runVars>>

\* sanitize_command applied to its own result
Resanitize ==
    /\ Len(sanitized) = 1
    /\ sanitized' = Append(sanitized, sanitize_command(sanitized[1]))
    /\ UNCHANGED <<valVars, cliVars, runVars>>

NextSan == Sanitize \/ Resanitize

SpecSan == InitSan /\ [][NextSan]_vars

\* a redirect or pipe into one of the four roots, with its whole target path
NotSpace(q) == << [t |-> "not", cs |-> Whitespace, q |-> q] >>
redirect_with_target ==
    << Class({">", "|"}, "+") \o WS("*") \o Lit(<<"/","d","e","v","/">>) \o NotSpace("*"),
       Class({">", "|"}, "+") \o WS("*") \o Lit(<<"/","e","t","c","/">>) \o NotSpace("*"),
       Class({">", "|"}, "+") \o WS("*") \o Lit(<<"/","v","a","r","/">>) \o NotSpace("*"),
       Class({">", "|"}, "+") \o WS("*") \o Lit(<<"/","u","s","r","/">>) \o NotSpace("*") >>

\* C8: sanitize_command is idempotent: applied to its own result it changes
\* nothing, for every command that passes the five checks of the default
\* policy.
C8_SanitizeIdempotent ==
    (Len(sanitized) = 2 /\ PassesFiveChecks(validator, command))
    => sanitized[2] = sanitized[1]

\* C9: sanitize_command erases every redirect or pipe into /dev/, /etc/,
\* /var/ or /usr/ together with its whole target path and trims the result,
\* for every command that passes the five checks of the default policy;
\* "cat secret > /etc/passwd" becomes "cat secret".
C9_RedirectAndTargetErased ==
    (Len(sanitized) >= 1 /\ PassesFiveChecks(validator, command)) =>
        /\ sanitized[1] = strip(sub(redirect_with_target, command))
        /\ command = <<"c","a","t"," ","s","e","c","r","e","t"," ",">"," ","/","e","t","c","/","p","a","s","s","w","d">> => sanitized[1] = <<"c","a","t"," ","s","e","c","r","e","t">>

----------------------------------------------------------------------------
(* the interactive loop: main, AICLI.__init__ and AICLI.run *)

\* most entries the history holds in the model
MaxHistory == 2

\* AICommandGenerator.generate_command: reply.ok is a completion whose text
\* is reply.content, otherwise the API call raised reply.content; the
\* character of the code fences is written "backtick"
generate_command(reply) ==
    LET stripped == strip(reply.content)
        rest == strip(SubSeq(stripped, 8, Len(stripped)))
    IN  IF ~reply.ok THEN
            <<"E","R","R","O","R",":"," ","F","a","i","l","e","d"," ","t","o"," ","g","e","n","e","r","a","t","e"," ","c","o","m","m","a","n","d"," ","-"," ">> \o reply.content
        ELSE IF startswith(stripped, <<"backtick","backtick","backtick">>) /\ endswith(stripped, <<"backtick","backtick","backtick">>) THEN
            strip(SubSeq(stripped, 4, Len(stripped) - 3))
        ELSE IF startswith(stripped, <<"backtick","backtick","backtick","b","a","s","h">>) THEN
            IF endswith(rest, <<"backtick","backtick","backtick">>)
            THEN strip(SubSeq(rest, 1, Len(rest) - 3)) ELSE rest
        ELSE stripped

\* lines typed at the prompt
Lines ==
    { <<>>, <<" ","E","x","i","t"," ">>, <<"h","e","l","p">>, <<"h","i","s","t","o","r","y">>, <<"c","o","n","f","i","g">>,
      <<"!","l","s"," ","-","l","a">>, <<"!"," ","r","m"," ","-","r","f"," ","/"," ">>, <<"!">>, <<"!","f","o","o">>, <<"l","i","s","t"," ","f","i","l","e","s">> }

\* what the model answers
Replies ==
    { [ok |-> TRUE, content |-> <<"l","s"," ","-","l","a">>],
      [ok |-> TRUE, content |-> <<" ","r","m"," ","-","r","f"," ","/","\n">>],
      [ok |-> TRUE, content |-> <<"backtick","backtick","backtick","\n","l","s"," ","-","l","a","\n","backtick","backtick","backtick">>],
      [ok |-> TRUE, content |-> <<"backtick","backtick","backtick","b","a","s","h","\n","r","m"," ","-","r","f"," ","/">>],
      [ok |-> TRUE, content |-> <<"C","L","A","R","I","F","I","C","A","T","I","O","N","_","N","E","E","D","E","D",":"," ","w","h","i","c","h"," ","f","i","l","e","s","?">>],
      [ok |-> FALSE, content |-> <<"C","o","n","n","e","c","t","i","o","n"," ","e","r","r","o","r",".">>] }

\* answers to "Execute this command? (y/n): "
Answers == { <<"y">>, <<" ","Y","E","S"," ">>, <<"n">>, <<>> }

\* the contents of ai-cli-config.json and of the file given by --config
CliConfigs ==
    { default_config,
      [ allowed_commands   |-> {<<"l","s">>},
        forbidden_commands |-> << <<"r","m"," ","-","r","f"," ","/">>, <<"r","m">> >>,
        max_command_length |-> ShortMaxLen,
        safe_mode          |-> TRUE ] }

\* the state when main calls cli.run(): AICLI() built the validator of the
\* executor from ai-cli-config.json (its set of forbidden substrings is
\* iterated in the configured order or in the reverse one), --config put
\* another ConfigManager in cli.config, --no-safe-mode cleared safe_mode
Init ==
    /\ \E constructed \in CliConfigs, current \in CliConfigs,
          no_safe_mode \in BOOLEAN :
          /\ validator \in
                 { v \in CommandValidator(constructed) :
                     v.forbidden_commands \in
                         { constructed.forbidden_commands,
                           Reverse(constructed.forbidden_commands) } }
          /\ config = [ current EXCEPT
                          !.safe_mode = IF no_safe_mode THEN FALSE ELSE @ ]
    /\ command = <<>>
    /\ outcome = NoOutcome
    /\ other = NoOther
    /\ sanitized = <<>>
    /\ pc = "prompt"
    /\ user_input = <<>>
    /\ generated_command = <<>>
    /\ confirm = NoConfirm
    /\ call = NoCall
    /\ started = {}
    /\ history = <<>>
    /\ IdleRun

\* the subprocess, if one was started, joins the started ones
Started(c) ==
    IF c.spawned THEN started \cup {[command |-> c.command, ran |-> c.ran]}
    ELSE started

\* HistoryManager.add_entry (the timestamp is left out)
add_entry(input, generated, output, exit_code) ==
    Append(history, [ user_input |-> input, generated_command |-> generated,
                      output |-> output, exit_code |-> exit_code ])

IsKeyword(line) ==
    \/ strip(line) = <<>>
    \/ lower(strip(line)) \in {<<"e","x","i","t">>, <<"h","e","l","p">>, <<"h","i","s","t","o","r","y">>, <<"c","o","n","f","i","g">>}

\* an empty line, help, history and config only print; exit leaves the
\* loop.  user_input and generated_command are locals of one iteration and
\* are cleared when the iteration ends.
Keyword(line) ==
    /\ pc = "prompt"
    /\ IsKeyword(line)
    /\ pc' = IF lower(strip(line)) = <<"e","x","i","t">> THEN "done" ELSE pc
    /\ UNCHANGED <<valVars, sanVars, runVars, config, user_input,
                   generated_command, confirm, call, started, history>>

\* !<command>: executed directly, not added to the history
DirectCommand(line) ==
    /\ pc = "prompt"
    /\ ~IsKeyword(line)
    /\ startswith(strip(line), <<"!">>)
    /\ call' \in execute_command(validator, strip(Tail(strip(line))), "direct")
    /\ started' = Started(call')
    /\ UNCHANGED <<valVars, sanVars, runVars, config, pc, user_input,
                   generated_command, confirm, history>>

\* execute_command(generated_command) and history.add_entry; an exception
\* of execute_command is caught by the loop before the entry is added
ExecuteGenerated(input, generated) ==
    /\ call' \in execute_command(validator, generated, "ai")
    /\ started' = Started(call')
    /\ history' = IF call'.raised THEN history
                  ELSE add_entry(input, generated, call'.output, call'.exit_code)

\* anything else is handed to the AI; the generated command is executed at
\* once when safe mode is off and awaits the confirmation when it is on
NaturalLanguage(line, reply) ==
    /\ pc = "prompt"
    /\ Len(history) < MaxHistory
    /\ ~IsKeyword(line)
    /\ ~startswith(strip(line), <<"!">>)
    /\ LET generated == generate_command(reply) IN
       IF \/ startswith(generated, <<"C","L","A","R","I","F","I","C","A","T","I","O","N","_","N","E","E","D","E","D",":">>)
          \/ startswith(generated, <<"E","R","R","O","R",":">>)
       THEN UNCHANGED <<cliVars>>
       ELSE IF config.safe_mode
       THEN /\ pc' = "confirm"
            /\ user_input' = strip(line)
            /\ generated_command' = generated
            /\ UNCHANGED <<config, confirm, call, started, history>>
       ELSE /\ ExecuteGenerated(strip(line), generated)
            /\ UNCHANGED <<config, pc, user_input, generated_command, confirm>>
    /\ UNCHANGED <<valVars, sanVars, runVars>>

\* the confirmation prompt without the test of line 385
Confirm_any_answer(answer) ==
    /\ pc = "confirm"
    /\ pc' = "prompt"
    /\ user_input' = <<>>
    /\ generated_command' = <<>>
    /\ confirm' = [asked |-> TRUE, answer |-> lower(strip(answer))]
    /\ ExecuteGenerated(user_input, generated_command)
    /\ UNCHANGED <<valVars, sanVars, runVars, config>>

\* the answer to the confirmation prompt
Confirm(answer) ==
    /\ pc = "confirm"
    /\ pc' = "prompt"
    /\ user_input' = <<>>
    /\ generated_command' = <<>>
    /\ confirm' = [asked |-> TRUE, answer |-> lower(strip(answer))]
    /\ IF confirm'.answer \in {<<"y">>, <<"y","e","s">>}
       THEN ExecuteGenerated(user_input, generated_command)
       ELSE UNCHANGED <<call, started, history>>
    /\ UNCHANGED <<valVars, sanVars, runVars, config>>

\* Ctrl-C or end of input at either prompt
Interrupt ==
    /\ pc \in {"prompt", "confirm"}
    /\ pc' = "interrupted"
    /\ user_input' = <<>>
    /\ generated_command' = <<>>
    /\ UNCHANGED <<valVars, sanVars, runVars, config, confirm, call, started,
                   history>>

Next ==
    \/ \E line \in Lines : Keyword(line)
    \/ \E line \in Lines : DirectCommand(line)
    \/ \E line \in Lines, reply \in Replies : NaturalLanguage(line, reply)
    \/ \E answer \in Answers : Confirm(answer)
    \/ Interrupt

Spec == Init /\ [][Next]_vars

----------------------------------------------------------------------------
(* properties of the gate, checked under Spec *)

Rejections ==
    { "Empty", "TooLong", "ForbiddenSubstring", "DangerousPattern",
      "CommandNotAllowlisted" }

\* C1: whether the command was typed after "!" or generated, a subprocess
\* is started only for a command that validate_command accepted in the same
\* call; when validation rejects, none is started and the result is
\* "ERROR: " followed by the reason of the rejection, with exit code 1.
C1_SubprocessOnlyAfterAcceptance ==
    /\ call.spawned =>
           /\ call.validation.is_safe /\ ~call.validation.raised
           /\ validate_command(validator, call.command).is_safe
    /\ \A s \in started : validate_command(validator, s.command).is_safe
    /\ (call.origin # "none" /\ ~call.validation.is_safe /\ ~call.raised) =>
           /\ ~call.spawned
           /\ [command |-> call.command, ran |-> call.ran] \notin started
           /\ Reason(call.validation) \in Rejections
           /\ call.output = <<"E","R","R","O","R",":"," ">> \o call.validation.error_msg
           /\ call.exit_code = 1

\* a generated command and a direct one, each rejected without a subprocess
C1_Witness ==
    /\ call.origin = "ai"
    /\ call.command = <<"r","m"," ","-","r","f"," ","/">>
    /\ ~call.validation.is_safe
    /\ ~call.spawned
    /\ started = {}
    /\ Len(history) = 2
    /\ history[1].generated_command = <<"l","s"," ","-","l","a">>

----------------------------------------------------------------------------
(* the try block of execute_command, process by process: subprocess.run    *)
(* with shell=True starts one shell, waits until the shell has exited and  *)
(* the captured pipes are closed, and on expiry of the timeout kills the   *)
(* shell, waits for it and raises TimeoutExpired.  Nothing is started in a *)
(* process group or session of its own and nothing but the shell is        *)
(* killed.  SpecRun starts where line 236 is reached.                      *)

\* timeout=30
timeout == 30

\* most processes the shell spawns in the model
MaxDescendants == 2

\* sanitized commands handed to subprocess.run
RunCommands ==
    { <<"s","l","e","e","p"," ","6","0">>, <<"s","l","e","e","p"," ","6","0"," ","&"," ","w","a","i","t">>, <<"l","s"," ","-","l","a",";"," ","s","l","e","e","p"," ","6","0">>,
      <<"c","a","t"," ","m","s","g",";"," ","e","x","i","t"," ","1">> }

InitRun ==
    /\ validator = IdleValidator
    /\ command \in RunCommands
    /\ outcome = NoOutcome
    /\ other = NoOther
    /\ sanitized = <<sanitize_command(command)>>
    /\ IdleCli
    /\ IdleRun

Waiting == result = NoResult /\ shell.state \in {"running", "exited"}

\* Popen starts the shell
Spawn ==
    /\ result = NoResult /\ shell.state = "none"
    /\ shell' = [state |-> "running", returncode |-> 0]
    /\ UNCHANGED <<valVars, sanVars, cliVars, descendants, elapsed, result>>

\* Popen raises (no shell, no permission): except Exception of line 252
SpawnFails(proc) ==
    /\ result = NoResult /\ shell.state = "none"
    /\ proc.kind = "error"
    /\ shell' = [state |-> "failed", returncode |-> 0]
    /\ result' = [kind |-> "failed"] @@ RunResult(proc)
    /\ UNCHANGED <<valVars, sanVars, cliVars, descendants, elapsed>>

\* the shell starts a process of the command line
Fork ==
    /\ shell.state = "running"
    /\ descendants.running + descendants.ended < MaxDescendants
    /\ descendants' = [descendants EXCEPT !.running = @ + 1]
    /\ UNCHANGED <<valVars, sanVars, cliVars, shell, elapsed, result>>

\* a process the shell started ends by itself
DescendantExits ==
    /\ descendants.running > 0
    /\ descendants' = [running |-> descendants.running - 1,
                       ended |-> descendants.ended + 1]
    /\ UNCHANGED <<valVars, sanVars, cliVars, shell, elapsed, result>>

\* the shell exits with a status
ShellExits(proc) ==
    /\ shell.state = "running"
    /\ proc.kind = "completed"
    /\ shell' = [state |-> "exited", returncode |-> proc.returncode]
    /\ UNCHANGED <<valVars, sanVars, cliVars, descendants, elapsed, result>>

\* a second passes while communicate() waits
Tick ==
    /\ Waiting
    /\ elapsed < timeout
    /\ elapsed' = elapsed + 1
    /\ UNCHANGED <<valVars, sanVars, cliVars, shell, descendants, result>>

\* of the commands of the model only the one that prints the file msg
\* writes the text of the timeout message to its stdout
Writes(cmd, proc) ==
    proc.stdout = <<"E","R","R","O","R",":"," ","C","o","m","m","a","n","d"," ","t","i","m","e","d"," ","o","u","t"," ","a","f","t","e","r"," ","3","0"," ","s","e","c","o","n","d","s">> =>
        cmd = <<"c","a","t"," ","m","s","g",";"," ","e","x","i","t"," ","1">>

\* the shell has exited and the pipes are closed: lines 244-248
Complete(proc) ==
    /\ Waiting
    /\ Writes(command, proc)
    /\ shell.state = "exited"
    /\ descendants.running = 0
    /\ proc.kind = "completed" /\ proc.returncode = shell.returncode
    /\ result' = [kind |-> "completed"] @@ RunResult(proc)
    /\ UNCHANGED <<valVars, sanVars, cliVars, shell, descendants, elapsed>>

\* the timeout expires: subprocess.run kills the shell, waits for it and
\* raises TimeoutExpired, which line 250 turns into the result
Timeout(proc) ==
    /\ Waiting
    /\ elapsed = timeout
    /\ proc.kind = "timeout"
    /\ shell' = IF shell.state = "running"
                THEN [state |-> "killed", returncode |-> -9] ELSE shell
    /\ result' = [kind |-> "timeout"] @@ RunResult(proc)
    /\ UNCHANGED <<valVars, sanVars, cliVars, descendants, elapsed>>

NextRun ==
    \/ Spawn
    \/ \E proc \in RunOutcomes : SpawnFails(proc)
    \/ Fork
    \/ DescendantExits
    \/ \E proc \in RunOutcomes : ShellExits(proc)
    \/ Tick
    \/ \E proc \in RunOutcomes : Complete(proc)
    \/ \E proc \in RunOutcomes : Timeout(proc)

SpecRun == InitRun /\ [][NextRun]_vars

\* a timed-out call of a command that left a process running
C10_Witness ==
    /\ result.kind = "timeout"
    /\ shell.state = "killed"
    /\ descendants.running > 0

PolicyRejectionResults ==
    { [ output |-> <<"E","R","R","O","R",":"," ">> \o validate_command(validator, c).error_msg,
        exit_code |-> 1 ] : c \in { <<>>, command } }

\* what execute_command returns when the timeout expires (lines 250-251) and
\* when the command could not be started (lines 252-254)
NotRunResults ==
    { RunResult(proc) : proc \in { p \in RunOutcomes : p.kind # "completed" } }

C12_SamePolicySameOutcome ==
    (outcome.called /\ other.outcome.called) => other.outcome = outcome

----------------------------------------------------------------------------
(* the confirmation of safe mode, checked under Spec *)

\* this step called execute_command: the call differs from the one before,
\* or (a generated command that did not raise) a history entry was added
Executed == call' # call \/ history' # history

\* this step called execute_command for a generated command
GeneratedExecuted ==
    history' # history \/ (call' # call /\ call'.origin = "ai")

\* this step read y or yes at the confirmation prompt for generated_command
AnsweredYes ==
    /\ pc = "confirm"
    /\ confirm'.asked
    /\ confirm'.answer \in {<<"y">>, <<"y","e","s">>}
    /\ call'.command = generated_command

----------------------------------------------------------------------------
(* the policy in force, checked under Spec *)

\* self holds the policy of cfg, as CommandValidator(cfg) stores it
EnforcesPolicyOf(self, cfg) ==
    /\ self.allowed_commands = cfg.allowed_commands
    /\ { self.forbidden_commands[i] : i \in DOMAIN self.forbidden_commands }
         = { cfg.forbidden_commands[i] : i \in DOMAIN cfg.forbidden_commands }
    /\ self.max_length = cfg.max_command_length

\* C14: at every point of the interactive loop the policy that the validator
\* of the executor enforces (allowed commands, forbidden substrings, maximum
\* length) is the policy of the configuration the application holds; after
\* --config put another configuration in place, commands are validated
\* against the policy of that file.
C14_ValidatorEnforcesCurrentConfig ==
    pc \in {"prompt", "confirm"} => EnforcesPolicyOf(validator, config)

====
